---------------------------- MODULE Spec2Model ----------------------------
(***************************************************************************)
(* Balansea portfolio rebalancing: the monitoring cycle, the swap planner  *)
(* and the swap executor, in their two implementations:                    *)
(*   - portfolioMonitoring (agenda job registered by jobWorker.startWorker)*)
(*     with balanceUtils / rebalanceUtils / swapUtils;                     *)
(*   - PortfolioMonitoringJob (class) with BalanceService /                *)
(*     RebalanceService / DynamicSwapService.                              *)
(*                                                                         *)
(* Money.  currentValueUSD is kept in mills (1/1000 USD); a percentage is  *)
(* kept in permille (0.05 = 50).  A product value * percentage is then in  *)
(* micro-USD (1/1 000 000 USD), the unit of every planned amount.          *)
(***************************************************************************)
EXTENDS Integers, Sequences, FiniteSets, TLC

Assets == {"WBTC", "WETH", "USDC"}

\* Allocation.find returns the allocations in insertion order.
AllocOrder == <<"WBTC", "WETH", "USDC">>

MillsPerUSD == 10 * 100
MicroPerMill == 10 * 100

\* validateSwapOperation.minAmountUSD and the planner's 0.01 guard, in micro-USD
DustUSD == 10 * MillsPerUSD

\* calculateCurrentAllocations: Math.abs(gap) > 0.001, in permille
AllocTolerance == 1

\* RebalanceService.calculateDeviations: portfolio.rebalanceThreshold || 0.05
DefaultThreshold == 50

VARIABLES
    holdings,      \* chain: asset -> USD value held by the wallet, in mills
    priceData,     \* asset -> whether a PriceData record exists
    portfolio,     \* the Portfolio document
    allocations,   \* asset -> the Allocation document of the portfolio
    rebalanceJobs, \* the RebalanceJob collection, a sequence of documents
    jobs,          \* the agenda job collection, a sequence of job documents
    now,           \* logical time: new Date() of the running tick
    pc,            \* position of the monitoring cycle
    cycle,         \* locals of the running cycle
    log,           \* externally visible operations of the current cycle
    planOut        \* result of the last planner call

vars == <<holdings, priceData, portfolio, allocations, rebalanceJobs, jobs, now,
          pc, cycle, log, planOut>>

---------------------------------------------------------------------------
(* Helpers *)

Abs(x) == IF x < 0 THEN -x ELSE x
Min(a, b) == IF a < b THEN a ELSE b

RECURSIVE SeqSum(_)
SeqSum(s) == IF Len(s) = 0 THEN 0 ELSE Head(s) + SeqSum(Tail(s))

\* Array.prototype.find by symbol: index of the first match, 0 when none
FindIdx(s, sym) ==
    IF \E i \in 1..Len(s) : s[i].symbol = sym
    THEN CHOOSE i \in 1..Len(s) : s[i].symbol = sym /\ \A j \in 1..(i-1) : s[j].symbol # sym
    ELSE 0

\* Array.prototype.sort((a, b) => b.key - a.key) on <<key, item>> pairs:
\* descending by key, equal keys keep their order
RECURSIVE InsertDesc(_, _)
InsertDesc(sorted, x) ==
    IF Len(sorted) = 0 THEN <<x>>
    ELSE IF Head(sorted)[1] >= x[1]
         THEN <<Head(sorted)>> \o InsertDesc(Tail(sorted), x)
         ELSE <<x>> \o sorted

RECURSIVE SortDescFrom(_, _, _)
SortDescFrom(s, k, acc) ==
    IF k > Len(s) THEN acc
    ELSE SortDescFrom(s, k + 1, InsertDesc(acc, s[k]))

SortDesc(keyed) ==
    LET sorted == SortDescFrom(keyed, 1, <<>>)
    IN  [i \in 1..Len(sorted) |-> sorted[i][2]]

---------------------------------------------------------------------------
(* balanceUtils: getCurrentBalances, calculateCurrentAllocations *)

\* getCurrentBalances: one CurrentBalance per allocation that has a price
\* record; an asset without PriceData is skipped.
getCurrentBalances(allocs, chain, prices) ==
    SelectSeq([i \in 1..Len(AllocOrder) |->
                  [symbol |-> AllocOrder[i], usd |-> chain[AllocOrder[i]]]],
              LAMBDA b : prices[b.symbol] /\ b.symbol \in DOMAIN allocs)

BalanceUsd(b) == b.usd

\* calculateCurrentAllocations: [] when the total value is zero; otherwise
\* one PortfolioAllocation per allocation.  gap is currentPercentage -
\* targetPercentage, kept as the numerator gapNum over 1000 * totalValueUSD.
calculateCurrentAllocations(allocs, chain, prices) ==
    LET balances == getCurrentBalances(allocs, chain, prices)
        totalValueUSD == SeqSum([i \in 1..Len(balances) |-> BalanceUsd(balances[i])])
        present == SelectSeq(AllocOrder, LAMBDA a : a \in DOMAIN allocs)
        One(a) ==
            LET k == FindIdx(balances, a)
                tp == allocs[a].targetPercentage
            IN  IF k = 0
                THEN [symbol |-> a, targetPercentage |-> tp,
                      currentValueUSD |-> 0, totalValueUSD |-> totalValueUSD,
                      gapNum |-> tp * totalValueUSD, needsRebalance |-> TRUE]
                ELSE LET gapNum == balances[k].usd * 1000 - tp * totalValueUSD
                     IN  [symbol |-> a, targetPercentage |-> tp,
                          currentValueUSD |-> balances[k].usd,
                          totalValueUSD |-> totalValueUSD,
                          gapNum |-> gapNum,
                          needsRebalance |-> Abs(gapNum) > AllocTolerance * totalValueUSD]
    IN  IF totalValueUSD = 0 THEN <<>> ELSE [i \in 1..Len(present) |-> One(present[i])]

AllocValue(a) == a.currentValueUSD

---------------------------------------------------------------------------
(* rebalanceUtils: calculateRebalanceSwaps, validateSwapOperation *)

\* asset.address of the Asset documents (unique per symbol)
AssetAddress(sym) ==
    CASE sym = "USDC" -> "0x833589fcd6edb6e08f4c7c32d4f71b54bda02913"
      [] sym = "WBTC" -> "0x0555e30da8f98308edb960aa94c0db47230d2b9c"
      [] sym = "WETH" -> "0x4200000000000000000000000000000000000006"

\* targetValuesUSD entry with its signed difference target - current, in
\* micro-USD
TargetDifference(alloc) ==
    alloc.totalValueUSD * alloc.targetPercentage - alloc.currentValueUSD * MicroPerMill

ToTrade(alloc) ==
    [symbol |-> alloc.symbol, gapNum |-> alloc.gapNum,
     difference |-> Abs(TargetDifference(alloc))]

\* assetsToSell.reduce((max, asset) => asset.difference > max.difference ?
\* asset : max): the first entry of the largest difference
RECURSIVE LargestSellIdx(_, _, _)
LargestSellIdx(sell, k, best) ==
    IF k > Len(sell) THEN best
    ELSE LargestSellIdx(sell, k + 1,
                        IF sell[k].difference > sell[best].difference THEN k ELSE best)

\* An amount matched that ignores what the seller has left
BuyAmountUSD(sellDifference, buyDifference) == buyDifference

\* The amount matched between the chosen seller and the buyer
SellAmountUSD(sellDifference, buyDifference) == Min(sellDifference, buyDifference)

\* for (const buyAsset of assetsToBuy) { ... }: buy[k..] still to visit, sell
\* with the differences remaining.  threw: reduce of an empty array with no
\* initial value raises a TypeError.
RECURSIVE MatchBuys(_, _, _, _)
MatchBuys(buy, sell, k, swaps) ==
    IF k > Len(buy) THEN [swaps |-> swaps, threw |-> FALSE]
    ELSE IF Len(sell) = 0 THEN [swaps |-> swaps, threw |-> TRUE]
    ELSE LET s == LargestSellIdx(sell, 2, 1)
         IN  IF sell[s].difference > DustUSD
             THEN LET amt == SellAmountUSD(sell[s].difference, buy[k].difference)
                      swap == [tokenInSymbol |-> sell[s].symbol,
                               tokenOutSymbol |-> buy[k].symbol,
                               tokenInAddress |-> AssetAddress(sell[s].symbol),
                               tokenOutAddress |-> AssetAddress(buy[k].symbol),
                               amountInUSD |-> amt,
                               gap |-> Abs(sell[s].gapNum) + Abs(buy[k].gapNum)]
                  IN  MatchBuys(buy,
                                [sell EXCEPT ![s].difference = @ - amt],
                                k + 1, Append(swaps, swap))
             ELSE MatchBuys(buy, sell, k + 1, swaps)

\* A sort key that ranks every swap alike
NoPriority(swap) == 0

\* The key of swaps.sort((a, b) => b.gap - a.gap)
SwapGap(swap) == swap.gap

calculateRebalanceSwaps(allocs) ==
    LET totalValueUSD == SeqSum([i \in 1..Len(allocs) |-> AllocValue(allocs[i])])
        assetsNeedingRebalance == SelectSeq(allocs, LAMBDA a : a.needsRebalance)
        toBuy == SelectSeq(allocs, LAMBDA a : TargetDifference(a) > 0)
        toSell == SelectSeq(allocs, LAMBDA a : TargetDifference(a) < 0)
        assetsToBuy == [i \in 1..Len(toBuy) |-> ToTrade(toBuy[i])]
        assetsToSell == [i \in 1..Len(toSell) |-> ToTrade(toSell[i])]
        matched == MatchBuys(assetsToBuy, assetsToSell, 1, <<>>)
        swaps == SortDesc([i \in 1..Len(matched.swaps) |->
                              <<SwapGap(matched.swaps[i]), matched.swaps[i]>>])
    IN  IF totalValueUSD = 0 \/ Len(assetsNeedingRebalance) = 0
        THEN [swaps |-> <<>>, totalValueUSD |-> totalValueUSD,
              isRebalanceNeeded |-> FALSE, threw |-> FALSE]
        ELSE IF matched.threw
        THEN [swaps |-> <<>>, totalValueUSD |-> totalValueUSD,
              isRebalanceNeeded |-> FALSE, threw |-> TRUE]
        ELSE [swaps |-> swaps, totalValueUSD |-> totalValueUSD,
              isRebalanceNeeded |-> Len(swaps) > 0, threw |-> FALSE]

\* A filter that keeps every swap
AcceptAnySwap(swap) == TRUE

validateSwapOperation(swap) ==
    /\ ~(swap.amountInUSD < DustUSD)
    /\ swap.tokenInAddress # swap.tokenOutAddress

---------------------------------------------------------------------------
(* BalanceService.getPortfolioBalances and RebalanceService *)

\* getPortfolioBalances: the persisted allocations, read back
getPortfolioBalances(allocs) ==
    LET present == SelectSeq(AllocOrder, LAMBDA a : a \in DOMAIN allocs)
    IN  [i \in 1..Len(present) |->
            [symbol |-> present[i], valueUSD |-> allocs[present[i]].currentValueUSD]]

BalanceValue(b) == b.valueUSD

\* needsRebalance = deviation > (portfolio.rebalanceThreshold || 0.05);
\* deviation is kept as the numerator devNum over 1000 * totalValueUSD
NeedsRebalance(devNum, totalValueUSD, threshold) ==
    devNum > (IF threshold = 0 THEN DefaultThreshold ELSE threshold) * totalValueUSD

\* RebalanceService.calculateDeviations.  currentPercentage is 0 when the
\* total is 0: the deviation is then the target itself.
calculateDeviations(allocs, threshold) ==
    LET balances == getPortfolioBalances(allocs)
        totalValueUSD == SeqSum([i \in 1..Len(balances) |-> BalanceValue(balances[i])])
        One(b) ==
            LET tp == allocs[b.symbol].targetPercentage
                \* sign of currentPercentage - targetPercentage, scaled
                diffNum == IF totalValueUSD > 0
                           THEN b.valueUSD * 1000 - tp * totalValueUSD
                           ELSE -tp
                den == IF totalValueUSD > 0 THEN totalValueUSD ELSE 1
            IN  [symbol |-> b.symbol, targetPercentage |-> tp,
                 diffNum |-> diffNum, deviation |-> Abs(diffNum),
                 needsRebalance |-> NeedsRebalance(Abs(diffNum), den, threshold),
                 currentValueUSD |-> b.valueUSD,
                 totalValueUSD |-> totalValueUSD]
    IN  [i \in 1..Len(balances) |-> One(balances[i])]

Deviation(d) == d.deviation

\* amountToSell = (excess.currentValueUSD - excess.targetValueUSD) / 2, in
\* micro-USD
AmountToSell(excess) ==
    (excess.currentValueUSD * MicroPerMill
        - excess.totalValueUSD * excess.targetPercentage) \div 2

\* for (const excess of excessAssets) for (const deficit of deficitAssets)
RECURSIVE PairSwaps(_, _, _, _)
PairSwaps(excess, deficit, e, d) ==
    IF e > Len(excess) THEN <<>>
    ELSE IF d > Len(deficit) THEN PairSwaps(excess, deficit, e + 1, 1)
    ELSE LET amountToSell == AmountToSell(excess[e])
             rest == PairSwaps(excess, deficit, e, d + 1)
         IN  IF excess[e].needsRebalance /\ deficit[d].needsRebalance /\ amountToSell > 0
             THEN <<[fromAsset |-> excess[e].symbol, toAsset |-> deficit[d].symbol,
                     expectedAmount |-> amountToSell]>> \o rest
             ELSE rest

generateSwapOperations(deviations) ==
    LET needing == SelectSeq(deviations, LAMBDA d : d.needsRebalance)
        sortedDeviations ==
            SortDesc([i \in 1..Len(needing) |-> <<Deviation(needing[i]), needing[i]>>])
        excessAssets == SelectSeq(sortedDeviations, LAMBDA d : d.diffNum > 0)
        deficitAssets == SelectSeq(sortedDeviations, LAMBDA d : d.diffNum < 0)
    IN  PairSwaps(excessAssets, deficitAssets, 1, 1)

\* RebalanceService.createRebalancePlan
createRebalancePlan(allocs, threshold) ==
    LET deviations == calculateDeviations(allocs, threshold)
    IN  [totalValueUSD |-> SeqSum([i \in 1..Len(deviations) |-> deviations[i].currentValueUSD]),
         deviations |-> deviations,
         needsRebalance |-> (\E i \in 1..Len(deviations) : deviations[i].needsRebalance),
         swaps |-> generateSwapOperations(deviations)]

\* A flag that is never raised
NeverNeedsRebalance(devNum, totalValueUSD, threshold) == FALSE

\* createStrictRebalancePlan, as the strict-rebalancing notes describe it:
\* needsRebalance is always true, the threshold is ignored
StrictNeedsRebalance(devNum, totalValueUSD, threshold) == TRUE

calculateStrictDeviations(allocs, threshold) ==
    LET deviations == calculateDeviations(allocs, threshold)
    IN  [i \in 1..Len(deviations) |->
            [deviations[i] EXCEPT !.needsRebalance =
                StrictNeedsRebalance(deviations[i].deviation,
                                     deviations[i].totalValueUSD, threshold)]]

createStrictRebalancePlan(allocs, threshold) ==
    LET deviations == calculateStrictDeviations(allocs, threshold)
    IN  [totalValueUSD |-> SeqSum([i \in 1..Len(deviations) |-> deviations[i].currentValueUSD]),
         deviations |-> deviations,
         needsRebalance |-> TRUE,
         swaps |-> generateSwapOperations(deviations)]

---------------------------------------------------------------------------
(* Inputs of the model *)

\* Wallet values are multiples of HoldingUnit, up to MaxUnits units per asset
HoldingUnit == 20 * MillsPerUSD
MaxUnits == 2

HoldingChoices == [Assets -> {k * HoldingUnit : k \in 0..MaxUnits}]

\* Target allocations in permille; each sums to 1000 as createPortfolio demands
TargetChoices ==
    { [WBTC |-> 500, WETH |-> 250, USDC |-> 250],
      [WBTC |-> 400, WETH |-> 300, USDC |-> 300],
      [WBTC |-> 100, WETH |-> 100, USDC |-> 800] }

\* portfolio.rebalanceThreshold values, in permille: the default and 10%
ThresholdChoices == {DefaultThreshold, 100}

\* A wallet exactly on the 50/25/25 target, then moved off it by a few cents
\* per asset (mills): drifts below, at and above 0.1% of its $80
BalancedHoldings == [WBTC |-> 2 * HoldingUnit, WETH |-> HoldingUnit, USDC |-> HoldingUnit]

DriftChoices == {-80, -8, 0, 8, 80}

DriftHoldings ==
    { [a \in Assets |-> BalancedHoldings[a] + d[a]] : d \in [Assets -> DriftChoices] }

\* PortfolioService.createPortfolio: the Allocation documents of a new
\* portfolio
NewAllocations(targets) ==
    [a \in DOMAIN targets |->
        [targetPercentage |-> targets[a], currentValueUSD |-> 0, percentOf |-> 0]]

\* balanceUtils.updatePortfolioBalances, the Allocation documents it leaves:
\* one update per PortfolioAllocation computed, none when the total is zero.
\* currentPercentage is currentValueUSD / percentOf (0 when percentOf is 0).
UpdatedAllocations(allocs, chain, prices) ==
    LET current == calculateCurrentAllocations(allocs, chain, prices)
        balances == getCurrentBalances(allocs, chain, prices)
    IN  [a \in DOMAIN allocs |->
            LET k == FindIdx(current, a)
            IN  IF k = 0 THEN allocs[a]
                ELSE [allocs[a] EXCEPT
                         !.currentValueUSD = current[k].currentValueUSD,
                         !.percentOf = IF FindIdx(balances, a) = 0 THEN 0
                                       ELSE current[k].totalValueUSD]]

NoPortfolio ==
    [exists |-> FALSE, isActive |-> FALSE, hasWallet |-> FALSE,
     rebalanceThreshold |-> 0, totalValueUSD |-> 0, lastRebalanceAt |-> 0]

NewPortfolio(threshold) ==
    [exists |-> TRUE, isActive |-> TRUE, hasWallet |-> TRUE,
     rebalanceThreshold |-> threshold, totalValueUSD |-> 0, lastRebalanceAt |-> 0]

\* Locals of a cycle: the swaps to execute, the loop index i, the executor's
\* txHashes, Date.now() - startTime of the running waitForTransaction (0
\* outside a wait), and how the cycle
\* ended: cause is the message first raised, error the message that reached
\* the scheduler, returned what executeRebalanceSwaps handed to its caller.
NoCycle ==
    [swaps |-> <<>>, i |-> 0, txHashes |-> <<>>, elapsed |-> 0,
     outcome |-> "none", cause |-> <<>>, error |-> <<>>, returned |-> <<>>,
     readFailed |-> {}]

\* agenda.create(jobName, data): a job document of the scheduler.  handler
\* is the function agenda.define registered for the job's name.
NewJob(portfolioId, handler) ==
    [portfolioId |-> portfolioId, handler |-> handler, disabled |-> FALSE,
     locked |-> FALSE, failReason |-> <<>>, rebalanceType |-> "threshold"]

NoPlan == [planner |-> "none", threw |-> FALSE, swaps |-> <<>>]

---------------------------------------------------------------------------
(* The two planners applied to bounded inputs *)

InitPlan ==
    /\ holdings \in HoldingChoices \cup DriftHoldings
    /\ priceData = [a \in Assets |-> TRUE]
    /\ \E t \in TargetChoices : allocations = UpdatedAllocations(NewAllocations(t), holdings, priceData)
    /\ \E th \in ThresholdChoices : portfolio = NewPortfolio(th)
    /\ rebalanceJobs = <<>>
    /\ jobs = <<>>
    /\ now = 0
    /\ pc = "plan"
    /\ cycle = NoCycle
    /\ log = <<>>
    /\ planOut = NoPlan

\* A planned swap seen as (sold asset, bought asset, USD amount in micro-USD)
GreedyView(swap) ==
    [from |-> swap.tokenInSymbol, to |-> swap.tokenOutSymbol, usd |-> swap.amountInUSD]

HaircutView(swap) ==
    [from |-> swap.fromAsset, to |-> swap.toAsset, usd |-> swap.expectedAmount]

\* portfolioMonitoring step 5: calculateRebalanceSwaps on the current
\* allocations
PlanSwaps ==
    /\ pc = "plan"
    /\ LET plan == calculateRebalanceSwaps(
                       calculateCurrentAllocations(allocations, holdings, priceData))
       IN  planOut' = [planner |-> "calculateRebalanceSwaps", threw |-> plan.threw,
                       swaps |-> [i \in 1..Len(plan.swaps) |-> GreedyView(plan.swaps[i])]]
    /\ pc' = "planned"
    /\ UNCHANGED <<holdings, priceData, portfolio, allocations, rebalanceJobs, jobs,
                   now, cycle, log>>

\* PortfolioMonitoringJob.execute, threshold mode: createRebalancePlan on the
\* persisted balances
PlanLegacy ==
    /\ pc = "plan"
    /\ LET plan == createRebalancePlan(allocations, portfolio.rebalanceThreshold)
       IN  planOut' = [planner |-> "generateSwapOperations", threw |-> FALSE,
                       swaps |-> [i \in 1..Len(plan.swaps) |-> HaircutView(plan.swaps[i])]]
    /\ pc' = "planned"
    /\ UNCHANGED <<holdings, priceData, portfolio, allocations, rebalanceJobs, jobs,
                   now, cycle, log>>

\* PortfolioMonitoringJob.execute, strict branch: createStrictRebalancePlan
\* on the persisted balances
PlanStrict ==
    /\ pc = "plan"
    /\ LET plan == createStrictRebalancePlan(allocations, portfolio.rebalanceThreshold)
       IN  planOut' = [planner |-> "createStrictRebalancePlan", threw |-> FALSE,
                       swaps |-> [i \in 1..Len(plan.swaps) |-> HaircutView(plan.swaps[i])]]
    /\ pc' = "planned"
    /\ UNCHANGED <<holdings, priceData, portfolio, allocations, rebalanceJobs, jobs,
                   now, cycle, log>>

NextPlan == PlanSwaps \/ PlanLegacy \/ PlanStrict

SpecPlan == InitPlan /\ [][NextPlan]_vars

---------------------------------------------------------------------------
(* Plan conservation *)

\* USD value of the portfolio on chain, in mills
ChainTotal ==
    LET balances == getCurrentBalances(allocations, holdings, priceData)
    IN  SeqSum([i \in 1..Len(balances) |-> BalanceUsd(balances[i])])

\* currentValueUSD - targetValueUSD of an asset, in micro-USD
Surplus(x) == holdings[x] * MicroPerMill - ChainTotal * allocations[x].targetPercentage

SoldUSD(swaps, x) ==
    LET sold == SelectSeq(swaps, LAMBDA s : s.from = x)
    IN  SeqSum([i \in 1..Len(sold) |-> sold[i].usd])

BoughtUSD(swaps, x) ==
    LET bought == SelectSeq(swaps, LAMBDA s : s.to = x)
    IN  SeqSum([i \in 1..Len(bought) |-> bought[i].usd])

Conserves(swaps) ==
    \A x \in Assets :
        /\ SoldUSD(swaps, x) > 0 => SoldUSD(swaps, x) <= Surplus(x)
        /\ BoughtUSD(swaps, x) > 0 => BoughtUSD(swaps, x) <= -Surplus(x)
        /\ ~(SoldUSD(swaps, x) > 0 /\ BoughtUSD(swaps, x) > 0)

\* C10: in every generated plan, by either planner, the amount sold of an
\* asset is at most its surplus, the amount bought of an asset is at most its
\* deficit, and no asset is both sold and bought.
C10_PlanConservation == Conserves(planOut.swaps)

\* The same, for the plans of calculateRebalanceSwaps alone
GreedyPlanConserves ==
    planOut.planner = "calculateRebalanceSwaps" => Conserves(planOut.swaps)

---------------------------------------------------------------------------
(* Which assets a plan trades, and for how much *)

ThresholdPlanners == {"calculateRebalanceSwaps", "generateSwapOperations"}

\* The needsRebalance flag the planner of the plan saw for asset x
FlaggedBy(planner, x) ==
    IF planner = "calculateRebalanceSwaps"
    THEN LET current == calculateCurrentAllocations(allocations, holdings, priceData)
         IN  \E i \in 1..Len(current) : current[i].symbol = x /\ current[i].needsRebalance
    ELSE LET deviations == calculateDeviations(allocations, portfolio.rebalanceThreshold)
         IN  \E i \in 1..Len(deviations) :
                deviations[i].symbol = x /\ deviations[i].needsRebalance

\* |currentPercentage - targetPercentage| > rebalanceThreshold for asset x of
\* the wallet, cross-multiplied by 1000 * ChainTotal
OverThreshold(x) ==
    Abs(holdings[x] * 1000 - allocations[x].targetPercentage * ChainTotal)
        > portfolio.rebalanceThreshold * ChainTotal

\* C11: under the threshold policy every swap of the plan sells an asset and
\* buys an asset whose needsRebalance flag is true.
C11_OnlyFlaggedAssetsTrade ==
    planOut.planner \in ThresholdPlanners =>
        \A k \in 1..Len(planOut.swaps) :
            /\ FlaggedBy(planOut.planner, planOut.swaps[k].from)
            /\ FlaggedBy(planOut.planner, planOut.swaps[k].to)

\* The same, for the plans of generateSwapOperations alone
LegacyPlanTradesFlagged ==
    planOut.planner = "generateSwapOperations" =>
        \A k \in 1..Len(planOut.swaps) :
            /\ FlaggedBy(planOut.planner, planOut.swaps[k].from)
            /\ FlaggedBy(planOut.planner, planOut.swaps[k].to)

\* C14: the needsRebalance flag of every allocation is true exactly when its
\* deviation is strictly greater than the portfolio's rebalanceThreshold.
C14_FlagIffOverThreshold ==
    (planOut.planner \in ThresholdPlanners /\ ChainTotal > 0) =>
        \A x \in Assets : FlaggedBy(planOut.planner, x) <=> OverThreshold(x)

\* The same, for the flags of RebalanceService.calculateDeviations alone
LegacyFlagIffOverThreshold ==
    (planOut.planner = "generateSwapOperations" /\ ChainTotal > 0) =>
        \A x \in Assets : FlaggedBy(planOut.planner, x) <=> OverThreshold(x)

\* C16: no swap of a plan has an amountInUSD below the dust floor of $0.01.
C16_NoDustSwapPlanned ==
    planOut.planner \in ThresholdPlanners =>
        \A k \in 1..Len(planOut.swaps) : planOut.swaps[k].usd >= DustUSD

\* C13: on the same balances the strict plan has at least as many swaps as
\* the threshold plan.
C13_StrictPlansAtLeastAsMany ==
    planOut.planner = "createStrictRebalancePlan" =>
        Len(planOut.swaps)
            >= Len(createRebalancePlan(allocations, portfolio.rebalanceThreshold).swaps)

\* A strict plan with swaps where the threshold plan has none
C13_StrictPlansMore ==
    /\ planOut.planner = "createStrictRebalancePlan"
    /\ Len(planOut.swaps) > 0
    /\ Len(createRebalancePlan(allocations, portfolio.rebalanceThreshold).swaps) = 0

\* What the plan leaves of the surplus of x, and of the deficit of x
RemainingSurplus(x) == Surplus(x) - SoldUSD(planOut.swaps, x)
RemainingDeficit(x) == -Surplus(x) - BoughtUSD(planOut.swaps, x)

\* Every surplus of the wallet is sold down to its target, or every deficit
\* is filled up to its target, to the cent
OneSideExhausted ==
    \/ \A x \in Assets : Surplus(x) > 0 => RemainingSurplus(x) <= DustUSD
    \/ \A x \in Assets : Surplus(x) < 0 => RemainingDeficit(x) <= DustUSD

\* C25: a plan of calculateRebalanceSwaps that has swaps matched surpluses
\* against deficits until one side was exhausted.
C25_MatchedUntilExhausted ==
    (planOut.planner = "calculateRebalanceSwaps" /\ Len(planOut.swaps) > 0)
        => OneSideExhausted

\* The same, for the plans of generateSwapOperations
LegacyMatchedUntilExhausted ==
    (planOut.planner = "generateSwapOperations" /\ Len(planOut.swaps) > 0)
        => OneSideExhausted

\* The deficits the plan leaves without any swap
UnfilledDeficits ==
    {x \in Assets : Surplus(x) < 0 /\ BoughtUSD(planOut.swaps, x) = 0}

---------------------------------------------------------------------------
(* Error messages.  A message is the sequence of its parts; includes() is   *)
(* membership of a part.                                                    *)

Includes(msg, part) == \E k \in 1..Len(msg) : msg[k] = part

\* The test of both catch blocks (portfolioMonitoring and startWorker)
IsFatal(msg) ==
    \/ Includes(msg, "Not enough balance")
    \/ Includes(msg, "insufficient funds")
    \/ Includes(msg, "gas too low")
    \/ Includes(msg, "out of gas")

\* `Portfolio monitoring disabled due to fatal error: ${error.message}`
DisabledError(msg) == <<"Portfolio monitoring disabled due to fatal error">> \o msg

\* executeSwap's message without the message of the error it caught
ExecuteSwapErrorNoCause(swap, msg) ==
    <<"Failed to execute swap", swap.tokenInSymbol, swap.tokenOutSymbol>>

\* `Failed to execute swap ${tokenInSymbol} -> ${tokenOutSymbol}: ${errorMessage}`
ExecuteSwapError(swap, msg) ==
    <<"Failed to execute swap", swap.tokenInSymbol, swap.tokenOutSymbol>> \o msg

\* `Rebalancing stopped at swap ${i + 1}: ${errorMessage}`
StoppedError(k, msg) == <<"Rebalancing stopped at swap", ToString(k)>> \o msg

\* `${label}: ${result}` with result an object: the text is [object Object]
ToolFailure(label) == <<label, "[object Object]">>

\* `Transaction ${txHash} not confirmed within ${maxWaitTime}ms`
TimeoutError(txHash, maxWaitTime) ==
    <<"Transaction", txHash, "not confirmed within", ToString(maxWaitTime)>>

\* Messages of the errors the chain provider, the tool clients and the
\* gas sponsor raise
ThrownReasons ==
    { <<"insufficient funds">>, <<"gas too low">>, <<"out of gas">>,
      <<"Not enough balance">>, <<"network error">> }

\* waitForTransaction: maxWaitTime default, and the pause between two polls
MaxWaitTime == 60000
PollInterval == 2000

\* A loop test that never ends the wait
NeverExpired(elapsed) == FALSE

\* The loop test of waitForTransaction, negated
WaitExpired(elapsed) == ~(elapsed < MaxWaitTime)

\* Date.now() - startTime after one more pause
ElapsedAfterPause(elapsed) == elapsed + PollInterval

\* Scheduler ticks explored
MaxTicks == 2

---------------------------------------------------------------------------
(* The monitoring cycle of portfolioMonitoring, for one portfolio and its   *)
(* job                                                                      *)

Event(op, k) == [op |-> op, swap |-> k]

\* A transaction hash: the swap it belongs to and its kind
TxHash(kind, k) == kind \o ToString(k)

InitCycle ==
    /\ holdings \in HoldingChoices
    /\ priceData = [a \in Assets |-> TRUE]
    /\ \E t \in TargetChoices : allocations = NewAllocations(t)
    /\ portfolio \in { NewPortfolio(DefaultThreshold), NoPortfolio,
                       [NewPortfolio(DefaultThreshold) EXCEPT !.isActive = FALSE],
                       [NewPortfolio(DefaultThreshold) EXCEPT !.hasWallet = FALSE] }
    /\ rebalanceJobs = <<>>
    /\ jobs = <<NewJob(1, "portfolioMonitoring")>>
    /\ now = 0
    /\ pc = "idle"
    /\ cycle = NoCycle
    /\ log = <<>>
    /\ planOut = NoPlan

\* The test without its isActive half
CanMonitorIfExists(p) == p.exists

\* `!portfolio || !portfolio.isActive` negated: the cycle goes on only for an
\* existing, active portfolio
CanMonitor(p) == p.exists /\ p.isActive

\* The handler returns normally: the scheduler unlocks the job
Return(locals, outcome) ==
    /\ cycle' = [locals EXCEPT !.outcome = outcome]
    /\ jobs' = [jobs EXCEPT ![1].locked = FALSE]
    /\ pc' = "idle"

\* An error raised as cause reaches the catch of portfolioMonitoring as msg, then the catch of the
\* handler defined in startWorker, then the scheduler, which stores it as the
\* job's failReason.
Throw(locals, cause, msg) ==
    LET inner == IF IsFatal(msg) THEN DisabledError(msg) ELSE msg
        outer == IF IsFatal(inner) THEN DisabledError(inner) ELSE inner
    IN  /\ cycle' = [locals EXCEPT !.outcome = "failed", !.cause = cause,
                                   !.error = outer, !.elapsed = 0]
        /\ jobs' = [jobs EXCEPT ![1].locked = FALSE,
                                ![1].disabled = @ \/ IsFatal(msg) \/ IsFatal(inner),
                                ![1].failReason = outer]
        /\ pc' = "idle"

\* A scheduler tick runs the handler: findById, then the existence and
\* isActive test
StartCycle ==
    /\ pc = "idle"
    /\ now < MaxTicks
    /\ Len(jobs) > 0 /\ ~jobs[1].disabled /\ ~jobs[1].locked
    /\ jobs[1].handler = "portfolioMonitoring"
    /\ now' = now + 1
    /\ log' = <<>>
    /\ IF ~CanMonitor(portfolio)
       THEN Return(NoCycle, "noop")
       ELSE /\ cycle' = NoCycle
            /\ jobs' = [jobs EXCEPT ![1].locked = TRUE]
            /\ pc' = "refresh"
    /\ UNCHANGED <<holdings, priceData, portfolio, allocations, rebalanceJobs, planOut>>

\* balanceOf rejects for these assets during one refresh: none, or one asset
ReadFailures == {{}} \cup {{a} : a \in Assets}

\* The message of a rejected balanceOf call
ReadError == <<"network error">>

\* A handler that plans nothing and goes from its first refresh to the
\* executor
StraightToExecutor(position) == IF position = "refresh" THEN "executor" ELSE "stamp"

\* What portfolioMonitoring does after updatePortfolioBalances returned: steps
\* 3 to 5 after the first refresh, the lastRebalanceAt update after the last
AfterRefresh(position) == IF position = "refresh" THEN "observe" ELSE "stamp"

\* balanceUtils.updatePortfolioBalances: the chain read succeeds and the
\* documents are written, or it raises.  getCurrentBalances awaits balanceOf
\* for each asset inside one try block whose catch rethrows, so a read that
\* fails for one asset raises out of the refresh.
UpdatePortfolioBalances ==
    /\ pc \in {"refresh", "finalRefresh"}
    /\ \/ /\ allocations' = UpdatedAllocations(allocations, holdings, priceData)
          /\ portfolio' =
                [portfolio EXCEPT
                    !.totalValueUSD =
                        LET current == calculateCurrentAllocations(allocations, holdings,
                                                                   priceData)
                        IN  SeqSum([i \in 1..Len(current) |-> AllocValue(current[i])]),
                    !.lastRebalanceAt = now]
          /\ log' = Append(log, Event(pc, cycle.i))
          /\ pc' = AfterRefresh(pc)
          /\ UNCHANGED <<cycle, jobs>>
       \/ /\ \E reason \in ThrownReasons : Throw(cycle, reason, reason)
          /\ UNCHANGED <<allocations, portfolio, log>>
       \/ /\ \E failed \in ReadFailures \ {{}} :
                Throw([cycle EXCEPT !.readFailed = failed], ReadError, ReadError)
          /\ UNCHANGED <<allocations, portfolio, log>>
    /\ UNCHANGED <<holdings, priceData, rebalanceJobs, now, planOut>>

\* portfolioMonitoring steps 3 to 5: the current allocations, the plan and
\* its validation
Observe ==
    /\ pc = "observe"
    /\ \/ LET current == calculateCurrentAllocations(allocations, holdings, priceData)
              plan == calculateRebalanceSwaps(current)
              validSwaps == SelectSeq(plan.swaps, validateSwapOperation)
          IN  IF Len(current) = 0 THEN
                  /\ Return(cycle, "noAllocations")
                  /\ UNCHANGED planOut
              ELSE IF ~(\E i \in 1..Len(current) : current[i].needsRebalance) THEN
                  /\ Return(cycle, "balanced")
                  /\ UNCHANGED planOut
              ELSE IF plan.threw THEN
                  /\ Throw(cycle, <<"Reduce of empty array with no initial value">>,
                           <<"Reduce of empty array with no initial value">>)
                  /\ UNCHANGED planOut
              ELSE
                  /\ planOut' = [planner |-> "calculateRebalanceSwaps", threw |-> FALSE,
                                 swaps |-> [i \in 1..Len(plan.swaps) |-> GreedyView(plan.swaps[i])]]
                  /\ IF ~(plan.isRebalanceNeeded /\ Len(plan.swaps) > 0)
                     THEN Return(cycle, "noSwapsNeeded")
                     ELSE IF Len(validSwaps) = 0
                     THEN Return(cycle, "noValidSwaps")
                     ELSE /\ cycle' = [cycle EXCEPT !.swaps = validSwaps]
                          /\ pc' = "executor"
                          /\ UNCHANGED jobs
       \/ /\ \E reason \in ThrownReasons : Throw(cycle, reason, reason)
          /\ UNCHANGED planOut
    /\ UNCHANGED <<holdings, priceData, portfolio, allocations, rebalanceJobs, now, log>>

\* swapUtils.executeRebalanceSwaps up to its loop: the portfolio and its
\* wallet
ExecutorStart ==
    /\ pc = "executor"
    /\ IF ~portfolio.hasWallet
       THEN Throw(cycle, <<"Portfolio missing ethAddress or pkpInfo.publicKey">>,
                  <<"Portfolio missing ethAddress or pkpInfo.publicKey">>)
       ELSE /\ cycle' = [cycle EXCEPT !.i = 1]
            /\ pc' = "approval"
            /\ UNCHANGED jobs
    /\ UNCHANGED <<holdings, priceData, portfolio, allocations, rebalanceJobs, now,
                   log, planOut>>

\* An error raised inside executeSwap for swap i: wrapped by executeSwap, then
\* by the executor's loop
FailInSwap(cause) ==
    /\ Throw(cycle, cause,
             StoppedError(cycle.i, ExecuteSwapError(cycle.swaps[cycle.i], cause)))
    /\ log' = Append(log, Event("failed", cycle.i))

\* swapUtils.handleTokenApproval for swap i
HandleTokenApproval ==
    /\ pc = "approval"
    /\ \/ /\ pc' = "swap"                                     \* alreadyApproved
          /\ UNCHANGED <<cycle, jobs, log>>
       \/ /\ pc' = "waitApproval"                             \* approval sent
          /\ cycle' = [cycle EXCEPT !.elapsed = 0]
          /\ log' = Append(log, Event("approvalTx", cycle.i))
          /\ UNCHANGED jobs
       \/ FailInSwap(ToolFailure("ERC20 approval tool precheck failed"))
       \/ FailInSwap(ToolFailure("ERC20 approval tool execution failed"))
       \/ \E reason \in ThrownReasons : FailInSwap(reason)
    /\ UNCHANGED <<holdings, priceData, portfolio, allocations, rebalanceJobs, now,
                   planOut>>

\* swapUtils.executeUniswapSwap for swap i; on return the executor pushes the
\* hash and starts waiting
ExecuteUniswapSwap ==
    /\ pc = "swap"
    /\ \/ /\ pc' = "waitSwap"
          /\ cycle' = [cycle EXCEPT !.elapsed = 0,
                                    !.txHashes = Append(@, TxHash("swap", cycle.i))]
          /\ log' = Append(log, Event("swapTx", cycle.i))
          /\ UNCHANGED jobs
       \/ FailInSwap(<<"User revoked permission to run this app">>)
       \/ FailInSwap(ToolFailure("Uniswap tool precheck failed"))
       \/ FailInSwap(ToolFailure("Uniswap tool execution failed"))
       \/ \E reason \in ThrownReasons : FailInSwap(reason)
    /\ UNCHANGED <<holdings, priceData, portfolio, allocations, rebalanceJobs, now,
                   planOut>>

\* What a poll of getTransactionReceipt can give: a receipt with status 1, no
\* receipt yet, a receipt of a reverted transaction, or a failed read
ReceiptOutcomes == {"confirmed", "pending", "reverted", "readError"}

\* The wallet after a confirmed swap: the USD amount moves from the sold to
\* the bought asset
Swapped(chain, swap) ==
    LET moved == swap.amountInUSD \div MicroPerMill
    IN  [chain EXCEPT ![swap.tokenInSymbol] = @ - moved,
                      ![swap.tokenOutSymbol] = @ + moved]

\* waitForTransaction, one turn of its loop: poll, return on a successful
\* receipt, otherwise pause
PollReceipt ==
    /\ pc \in {"waitApproval", "waitSwap"}
    /\ ~WaitExpired(cycle.elapsed)
    /\ \E receipt \in ReceiptOutcomes :
          IF receipt # "confirmed" THEN
              /\ cycle' = [cycle EXCEPT !.elapsed = ElapsedAfterPause(@)]
              /\ UNCHANGED <<pc, log, holdings>>
          ELSE IF pc = "waitApproval" THEN
              /\ pc' = "swap"
              /\ cycle' = [cycle EXCEPT !.elapsed = 0]
              /\ log' = Append(log, Event("approvalConfirmed", cycle.i))
              /\ UNCHANGED holdings
          ELSE
              /\ holdings' = Swapped(holdings, cycle.swaps[cycle.i])
              /\ log' = Append(log, Event("swapConfirmed", cycle.i))
              /\ IF cycle.i < Len(cycle.swaps)
                 THEN /\ cycle' = [cycle EXCEPT !.i = @ + 1, !.elapsed = 0]
                      /\ pc' = "approval"
                 ELSE /\ cycle' = [cycle EXCEPT !.returned = cycle.txHashes,
                                                !.elapsed = 0]
                      /\ pc' = "finalRefresh"
    /\ UNCHANGED <<priceData, portfolio, allocations, rebalanceJobs, jobs, now, planOut>>

\* waitForTransaction once maxWaitTime has elapsed: it raises.  The wait for
\* an approval is inside executeSwap, the wait for a swap in the executor's
\* loop.
WaitTimeout ==
    /\ pc \in {"waitApproval", "waitSwap"}
    /\ WaitExpired(cycle.elapsed)
    /\ IF pc = "waitApproval"
       THEN FailInSwap(TimeoutError(TxHash("approval", cycle.i), MaxWaitTime))
       ELSE /\ Throw(cycle, TimeoutError(TxHash("swap", cycle.i), MaxWaitTime),
                     StoppedError(cycle.i,
                                  TimeoutError(TxHash("swap", cycle.i), MaxWaitTime)))
            /\ log' = Append(log, Event("failed", cycle.i))
    /\ UNCHANGED <<holdings, priceData, portfolio, allocations, rebalanceJobs, now,
                   planOut>>

\* Portfolio.findByIdAndUpdate(portfolioId, { lastRebalanceAt: new Date() })
StampLastRebalanceAt ==
    /\ pc = "stamp"
    /\ portfolio' = [portfolio EXCEPT !.lastRebalanceAt = now]
    /\ log' = Append(log, Event("stamp", cycle.i))
    /\ Return(cycle, "completed")
    /\ UNCHANGED <<holdings, priceData, allocations, rebalanceJobs, now, planOut>>

Next ==
    \/ StartCycle
    \/ UpdatePortfolioBalances
    \/ Observe
    \/ ExecutorStart
    \/ HandleTokenApproval
    \/ ExecuteUniswapSwap
    \/ PollReceipt
    \/ WaitTimeout
    \/ StampLastRebalanceAt

Spec == InitCycle /\ [][Next]_vars

\* The event loop resumes a suspended handler: every step of a running cycle
\* is eventually taken.
FairSpec == Spec /\ WF_vars(PollReceipt) /\ WF_vars(WaitTimeout)

---------------------------------------------------------------------------
(* The same cycle on a wallet that drifted a few cents off its targets, for *)
(* a portfolio created with either rebalancing policy                       *)

\* portfolioSchema: rebalanceType of a createPortfolio request
RebalanceTypes == {"threshold", "strict_periodic"}

\* createPortfolio passes rebalanceType to new Portfolio(...) and to the job
\* data.  PortfolioSchema declares no such path, so the stored Portfolio
\* document does not carry it; the job data does.
InitDrift ==
    /\ holdings \in DriftHoldings
    /\ priceData = [a \in Assets |-> TRUE]
    /\ allocations = NewAllocations([WBTC |-> 500, WETH |-> 250, USDC |-> 250])
    /\ portfolio = NewPortfolio(DefaultThreshold)
    /\ rebalanceJobs = <<>>
    /\ \E t \in RebalanceTypes :
          jobs = <<[NewJob(1, "portfolioMonitoring") EXCEPT !.rebalanceType = t]>>
    /\ now = 0
    /\ pc = "idle"
    /\ cycle = NoCycle
    /\ log = <<>>
    /\ planOut = NoPlan

SpecDrift == InitDrift /\ [][Next]_vars

\* Some asset is at least one cent over its target value and another at
\* least one cent under: a swap toward the targets that is not dust exists
SwapTowardTargets ==
    \E x, y \in Assets : Surplus(x) >= DustUSD /\ Surplus(y) <= -DustUSD

\* C12: under the strict_periodic policy a cycle that observes deviations
\* plans and executes swaps toward the exact targets; it does not end as
\* balanced, without swaps or without valid swaps while a swap toward the
\* targets exists.
C12_StrictAlwaysRebalances ==
    (/\ jobs[1].rebalanceType = "strict_periodic"
     /\ pc = "idle"
     /\ cycle.outcome \in {"balanced", "noSwapsNeeded", "noValidSwaps"})
        => ~SwapTowardTargets

\* An approval or a swap of the running cycle was submitted and no swap has
\* moved the wallet yet
FirstSubmission ==
    /\ \E k \in 1..Len(log) : log[k].op \in {"approvalTx", "swapTx"}
    /\ \A k \in 1..Len(log) : log[k].op # "swapConfirmed"

\* C15: under the threshold policy a cycle submits an approval or a swap
\* only when some asset's deviation exceeds the portfolio's
\* rebalanceThreshold after the refresh.
C15_NoActionWithinThreshold ==
    (jobs[1].rebalanceType = "threshold" /\ FirstSubmission)
        => \E x \in Assets : OverThreshold(x)

\* A planned swap the handler must drop: dust, or the same asset on both
\* sides
InvalidPlanned(v) == v.usd < DustUSD \/ v.from = v.to

\* The swaps of the plan that are not invalid, in the order of the plan
ValidPlanned == SelectSeq(planOut.swaps, LAMBDA v : ~InvalidPlanned(v))

\* C17: the swaps handed to the executor are the valid swaps of the plan in
\* their original order, only they are submitted, and a cycle whose swaps
\* were all dropped ends without an error.
C17_InvalidSwapsDropped ==
    /\ Len(cycle.swaps) > 0 =>
           /\ [i \in 1..Len(cycle.swaps) |-> GreedyView(cycle.swaps[i])] = ValidPlanned
           /\ \A k \in 1..Len(log) :
                  log[k].op \in {"approvalTx", "swapTx"} =>
                      ~InvalidPlanned(GreedyView(cycle.swaps[log[k].swap]))
           /\ \A j, k \in 1..Len(log) :
                  (j < k /\ log[j].op = "swapTx" /\ log[k].op = "swapTx") =>
                      log[j].swap < log[k].swap
    /\ cycle.outcome = "noValidSwaps" =>
           /\ cycle.error = <<>>
           /\ ValidPlanned = <<>>
           /\ \A k \in 1..Len(log) : log[k].op \notin {"approvalTx", "swapTx"}

\* A cycle that dropped a dust swap and completed with the remaining one
C17_DroppedAndCompleted ==
    /\ cycle.outcome = "completed"
    /\ Len(cycle.swaps) > 0
    /\ Len(cycle.swaps) < Len(planOut.swaps)
    /\ \E k \in 1..Len(log) : log[k].op = "swapConfirmed"

---------------------------------------------------------------------------
(* The monitoring cycle of PortfolioMonitoringJob, threshold mode, with     *)
(* BalanceService, RebalanceService and DynamicSwapService                  *)

\* BalanceService.updatePortfolioBalances, the Allocation documents it
\* leaves.  getAssetPrice gives 0 for an asset without a price.
LegacyUpdatedAllocations(allocs, chain, prices, failed) ==
    LET value(a) == IF a \in failed \/ ~prices[a] THEN 0 ELSE chain[a]
        present == SelectSeq(AllocOrder, LAMBDA a : a \in DOMAIN allocs)
        totalValueUSD == SeqSum([i \in 1..Len(present) |-> value(present[i])])
    IN  [a \in DOMAIN allocs |->
            [allocs[a] EXCEPT !.currentValueUSD = value(a),
                              !.percentOf = totalValueUSD]]

InitLegacy ==
    /\ holdings \in HoldingChoices
    /\ priceData = [a \in Assets |-> TRUE]
    /\ \E t \in TargetChoices : allocations = NewAllocations(t)
    /\ portfolio \in {NewPortfolio(th) : th \in ThresholdChoices}
                     \cup {NoPortfolio, [NewPortfolio(DefaultThreshold) EXCEPT !.isActive = FALSE]}
    /\ rebalanceJobs = <<>>
    /\ jobs = <<NewJob(1, "PortfolioMonitoringJob.execute")>>
    /\ now = 0
    /\ pc = "idle"
    /\ cycle = NoCycle
    /\ log = <<>>
    /\ planOut = NoPlan

\* PortfolioMonitoringJob.execute: findById, then the existence and isActive
\* test
LegacyExecute ==
    /\ pc = "idle"
    /\ now < MaxTicks
    /\ Len(jobs) > 0 /\ ~jobs[1].disabled /\ ~jobs[1].locked
    /\ jobs[1].handler = "PortfolioMonitoringJob.execute"
    /\ now' = now + 1
    /\ log' = <<>>
    /\ IF ~CanMonitor(portfolio)
       THEN Return(NoCycle, "noop")
       ELSE /\ cycle' = NoCycle
            /\ jobs' = [jobs EXCEPT ![1].locked = TRUE]
            /\ pc' = "legacyRefresh"
    /\ UNCHANGED <<holdings, priceData, portfolio, allocations, rebalanceJobs, planOut>>

\* BalanceService.updatePortfolioBalances, before the plan and after the
\* rebalancing
LegacyUpdateBalances ==
    /\ pc \in {"legacyRefresh", "legacyFinalRefresh"}
    /\ \E failed \in ReadFailures :
          LET updated == LegacyUpdatedAllocations(allocations, holdings, priceData, failed)
          IN  /\ allocations' = updated
              /\ portfolio' = [portfolio EXCEPT !.totalValueUSD =
                                  LET balances == getPortfolioBalances(updated)
                                  IN  SeqSum([i \in 1..Len(balances) |->
                                                 BalanceValue(balances[i])])]
    /\ IF pc = "legacyRefresh"
       THEN /\ log' = Append(log, Event("refresh", cycle.i))
            /\ pc' = "legacyPlan"
            /\ UNCHANGED <<cycle, jobs>>
       ELSE /\ log' = Append(log, Event("finalRefresh", cycle.i))
            /\ Return(cycle, "completed")
    /\ UNCHANGED <<holdings, priceData, rebalanceJobs, now, planOut>>

\* execute, threshold branch: calculateDeviations, then createRebalancePlan
LegacyPlan ==
    /\ pc = "legacyPlan"
    /\ LET deviations == calculateDeviations(allocations, portfolio.rebalanceThreshold)
           plan == createRebalancePlan(allocations, portfolio.rebalanceThreshold)
       IN  IF ~(\E i \in 1..Len(deviations) : deviations[i].needsRebalance) THEN
               /\ Return(cycle, "balanced")
               /\ UNCHANGED planOut
           ELSE
               /\ planOut' = [planner |-> "generateSwapOperations", threw |-> FALSE,
                              swaps |-> [i \in 1..Len(plan.swaps) |-> HaircutView(plan.swaps[i])]]
               /\ IF plan.needsRebalance
                  THEN /\ cycle' = [cycle EXCEPT !.swaps = plan.swaps, !.i = 1]
                       /\ pc' = IF Len(plan.swaps) = 0 THEN "legacyRecord" ELSE "legacySwap"
                       /\ UNCHANGED jobs
                  ELSE Return(cycle, "balanced")
    /\ UNCHANGED <<holdings, priceData, portfolio, allocations, rebalanceJobs, now, log>>

\* DynamicSwapService.executeRebalanceSwaps, one turn of its loop:
\* executeSwap (approval, then swap, no wait), results.push on success, the
\* error of a failed swap caught and the loop continued
LegacyExecuteSwap ==
    /\ pc = "legacySwap"
    /\ \E approval \in {"alreadyApproved", "approved", "failed"}, submitted \in BOOLEAN :
          LET afterApproval ==
                  IF approval = "approved"
                  THEN Append(log, Event("approvalTx", cycle.i)) ELSE log
          IN  IF approval # "failed" /\ submitted
              THEN /\ log' = Append(afterApproval, Event("swapTx", cycle.i))
                   /\ cycle' = [cycle EXCEPT
                                   !.txHashes = Append(@, TxHash("swap", cycle.i)),
                                   !.i = @ + 1]
              ELSE /\ approval = "failed" => ~submitted
                   /\ log' = Append(afterApproval, Event("failed", cycle.i))
                   /\ cycle' = [cycle EXCEPT !.i = @ + 1]
    /\ pc' = IF cycle.i < Len(cycle.swaps) THEN "legacySwap" ELSE "legacyRecord"
    /\ UNCHANGED <<holdings, priceData, portfolio, allocations, rebalanceJobs, jobs,
                   now, planOut>>

\* swapOperationSchema: the fields a swap of a RebalanceJob must have.  path
\* is an array, which defaults to [].
RequiredSwapFields == {"fromAsset", "toAsset", "amount", "expectedAmount", "minAmountOut"}

RebalanceJobStatuses == {"pending", "executing", "completed", "failed", "cancelled"}

\* RebalanceJobSchema validation on save
ValidRebalanceJob(doc) ==
    /\ doc.status \in RebalanceJobStatuses
    /\ doc.rebalanceType \in {"threshold", "scheduled", "manual"}
    /\ \A k \in 1..Len(doc.swaps) : RequiredSwapFields \subseteq doc.swaps[k].fields

\* recordRebalanceJob: the document it builds
RebalanceJobDoc(swaps, txHashes, executedAt) ==
    [status |-> "executing", rebalanceType |-> "threshold",
     swaps |-> [k \in 1..Len(swaps) |->
                   [fromAsset |-> swaps[k].fromAsset, toAsset |-> swaps[k].toAsset,
                    fields |-> {"fromAsset", "toAsset", "amount", "expectedAmount"}]],
     txHashes |-> txHashes, errorMessage |-> <<>>, executedAt |-> executedAt]

\* recordRebalanceJob: save; a validation error is logged and swallowed
RecordRebalanceJob ==
    /\ pc = "legacyRecord"
    /\ LET doc == RebalanceJobDoc(cycle.swaps, cycle.txHashes, now)
       IN  rebalanceJobs' = IF ValidRebalanceJob(doc)
                            THEN Append(rebalanceJobs, doc) ELSE rebalanceJobs
    /\ pc' = "legacyAfter"
    /\ UNCHANGED <<holdings, priceData, portfolio, allocations, jobs, now, cycle, log,
                   planOut>>

\* updatePortfolioAfterRebalance: lastRebalanceAt and totalValueUSD of the
\* plan; its allocation updates match no document
UpdatePortfolioAfterRebalance ==
    /\ pc = "legacyAfter"
    /\ portfolio' = [portfolio EXCEPT
                        !.lastRebalanceAt = now,
                        !.totalValueUSD =
                            LET balances == getPortfolioBalances(allocations)
                            IN  SeqSum([i \in 1..Len(balances) |->
                                           BalanceValue(balances[i])])]
    /\ log' = Append(log, Event("stamp", cycle.i))
    /\ pc' = "legacyFinalRefresh"
    /\ UNCHANGED <<holdings, priceData, allocations, rebalanceJobs, jobs, now, cycle,
                   planOut>>

NextLegacy ==
    \/ LegacyExecute
    \/ LegacyUpdateBalances
    \/ LegacyPlan
    \/ LegacyExecuteSwap
    \/ RecordRebalanceJob
    \/ UpdatePortfolioAfterRebalance

SpecLegacy == InitLegacy /\ [][NextLegacy]_vars

\* Either handler may be the one the scheduler runs
InitBoth == InitCycle \/ InitLegacy

NextBoth == Next \/ NextLegacy

SpecBoth == InitBoth /\ [][NextBoth]_vars

---------------------------------------------------------------------------
(* Properties of the swap executor, read on the log of the cycle *)

Submissions == {"approvalTx", "swapTx"}

CycleEnded == pc = "idle" /\ cycle.outcome # "none"

\* The swap whose failure is in the log, 0 when none failed
FailedSwap ==
    IF \E k \in 1..Len(log) : log[k].op = "failed"
    THEN log[CHOOSE k \in 1..Len(log) :
                 log[k].op = "failed" /\ \A j \in 1..(k-1) : log[j].op # "failed"].swap
    ELSE 0

AllSwapsConfirmed ==
    /\ Len(cycle.swaps) > 0
    /\ \A k \in 1..Len(cycle.swaps) :
          \E j \in 1..Len(log) : log[j] = Event("swapConfirmed", k)

\* C1: once a swap of the cycle has failed, nothing (no approval, no swap
\* transaction) is submitted for a swap of greater index in that cycle.
C1_AbortOnFirstFailure ==
    \A a, b \in 1..Len(log) :
        (a < b /\ log[a].op = "failed" /\ log[b].swap > log[a].swap)
            => log[b].op \notin Submissions

\* C2: nothing is submitted for swap i+1 before the swap transaction of swap
\* i has been observed confirmed.
C2_ConfirmedBeforeNext ==
    \A b \in 1..Len(log) :
        (log[b].op \in Submissions /\ log[b].swap > 1)
            => \E a \in 1..(b-1) : log[a] = Event("swapConfirmed", log[b].swap - 1)

\* C3: when the executor failed at swap k, its caller holds the hashes of
\* the swaps 1..k-1, all confirmed, and the error names k and the reason.
C3_PartialHashesReturned ==
    (CycleEnded /\ cycle.outcome = "failed" /\ FailedSwap > 0)
        => /\ cycle.returned = [j \in 1..(FailedSwap - 1) |-> TxHash("swap", j)]
           /\ Includes(cycle.error, ToString(FailedSwap))
           /\ \A k \in 1..Len(cycle.cause) : Includes(cycle.error, cycle.cause[k])

\* C8: the lastRebalanceAt update of the completion step comes after the
\* final refresh, a completed rebalancing has both, and a cycle with a failed
\* swap has neither.
C8_CompletionStep ==
    /\ \A b \in 1..Len(log) :
          (log[b].op = "stamp" /\ Len(cycle.swaps) > 0)
              => \E a \in 1..(b-1) : log[a].op = "finalRefresh"
    /\ (CycleEnded /\ cycle.outcome = "completed" /\ AllSwapsConfirmed)
          => \E b \in 1..Len(log) : log[b].op = "stamp"
    /\ FailedSwap > 0
          => \A b \in 1..Len(log) : log[b].op \notin {"finalRefresh", "stamp"}

\* C9: a cycle that started executing swaps and has ended left a RebalanceJob
\* record of this cycle whose status is completed when every swap confirmed
\* and failed, with an error message, otherwise; no record stays at executing.
C9_AuditRecord ==
    (CycleEnded /\ cycle.i >= 1 /\ Len(cycle.swaps) > 0)
        => /\ \E k \in 1..Len(rebalanceJobs) :
                 /\ rebalanceJobs[k].executedAt = now
                 /\ IF AllSwapsConfirmed
                    THEN rebalanceJobs[k].status = "completed"
                    ELSE /\ rebalanceJobs[k].status = "failed"
                         /\ rebalanceJobs[k].errorMessage # <<>>
           /\ \A k \in 1..Len(rebalanceJobs) : rebalanceJobs[k].status # "executing"

---------------------------------------------------------------------------
(* A balance read that fails for one asset *)

\* C20: a balance read that fails for one asset during a refresh does not
\* abort the refresh or the cycle: the cycle does not fail with the read's
\* error, the refresh completes, and the asset counts for 0.
C20_ReadFailureTolerated ==
    cycle.readFailed # {} =>
        /\ ~(cycle.outcome = "failed" /\ cycle.cause = ReadError)
        /\ \E k \in 1..Len(log) : log[k].op \in {"refresh", "finalRefresh"}
        /\ \A a \in cycle.readFailed : allocations[a].currentValueUSD = 0

---------------------------------------------------------------------------
(* The order of the phases of a cycle *)

\* Positions of a cycle inside the swap executor
ExecutorPhases == {"executor", "approval", "swap", "waitApproval", "waitSwap", "legacySwap"}

\* A swap of the running cycle as the plan of its handler shows it
PlannedView(swap) ==
    IF jobs[1].handler = "portfolioMonitoring" THEN GreedyView(swap) ELSE HaircutView(swap)

\* The running cycle refreshed the balances first, then built the plan its
\* swaps come from
RefreshedAndPlanned ==
    /\ Len(log) > 0
    /\ log[1] = Event("refresh", 0)
    /\ planOut.planner # "none"
    /\ Len(cycle.swaps) > 0
    /\ \A i \in 1..Len(cycle.swaps) :
          \E k \in 1..Len(planOut.swaps) : planOut.swaps[k] = PlannedView(cycle.swaps[i])

\* C22: within one cycle the balance refresh completes before the deviations
\* and the plan are computed, and the plan is built before the executor is
\* entered and before anything is submitted.
C22_PhasesInOrder ==
    /\ pc \in {"observe", "legacyPlan"} => log = <<Event("refresh", 0)>>
    /\ pc \in ExecutorPhases => RefreshedAndPlanned
    /\ \A k \in 1..Len(log) :
          log[k].op \in Submissions => (k > 1 /\ RefreshedAndPlanned)

\* A swap was submitted by a cycle that refreshed and planned first
C22_SwapSubmitted ==
    /\ pc = "waitSwap"
    /\ log[1] = Event("refresh", 0)
    /\ log[Len(log)].op = "swapTx"

\* C24: when an approval transaction was sent for a swap, the swap
\* transaction is submitted only after that approval has been observed
\* confirmed; after a failed or timed-out approval it is never submitted.
C24_ApprovalConfirmedFirst ==
    \A a, b \in 1..Len(log) :
        (a < b /\ log[a].op = "approvalTx" /\ log[b] = Event("swapTx", log[a].swap))
            => \E c \in (a + 1)..(b - 1) : log[c] = Event("approvalConfirmed", log[a].swap)

\* |gap| of asset x as calculateCurrentAllocations computes it on the
\* wallet: |currentPercentage - targetPercentage| over 1000 * ChainTotal
WalletGap(x) == Abs(holdings[x] * 1000 - allocations[x].targetPercentage * ChainTotal)

\* C23: each swap carries the priority |gap of its source asset| + |gap of
\* its destination asset|, the swaps handed to the executor are in
\* non-increasing priority order, and the executor submits them in that
\* order.
C23_DescendingPriority ==
    jobs[1].handler = "portfolioMonitoring" =>
        /\ (pc \in ExecutorPhases /\ \A k \in 1..Len(log) : log[k].op # "swapConfirmed") =>
               \A i \in 1..Len(cycle.swaps) :
                   cycle.swaps[i].gap = WalletGap(cycle.swaps[i].tokenInSymbol)
                                            + WalletGap(cycle.swaps[i].tokenOutSymbol)
        /\ \A i, j \in 1..Len(cycle.swaps) :
               i < j => cycle.swaps[i].gap >= cycle.swaps[j].gap
        /\ \A a, b \in 1..Len(log) :
               (a < b /\ log[a].op = "swapTx" /\ log[b].op = "swapTx") =>
                   log[a].swap < log[b].swap

\* The second of two swaps of different priorities was submitted after the
\* first
C23_SecondSwapSubmitted ==
    /\ jobs[1].handler = "portfolioMonitoring"
    /\ Len(cycle.swaps) >= 2
    /\ cycle.swaps[1].gap > cycle.swaps[2].gap
    /\ \E a, b \in 1..Len(log) :
          a < b /\ log[a] = Event("swapTx", 1) /\ log[b] = Event("swapTx", 2)

---------------------------------------------------------------------------
(* lastRebalanceAt *)

\* C29: lastRebalanceAt changes only in a cycle whose swaps all confirmed: a
\* portfolio whose lastRebalanceAt is the time of the running tick has had
\* every swap of this cycle confirmed.
C29_StampOnlyWhenConfirmed ==
    (now > 0 /\ portfolio.lastRebalanceAt = now) => AllSwapsConfirmed

---------------------------------------------------------------------------
(* Fatal errors, inactive portfolios, confirmation waits *)

\* The reasons of the fatal class
FatalReasons == {"Not enough balance", "insufficient funds", "gas too low", "out of gas"}

RaisedFatal == \E r \in FatalReasons : Includes(cycle.cause, r)

\* C4: at the end of a cycle the job is disabled exactly when the cycle
\* failed with a reason of the fatal class, wrapped or not; the error then
\* reaches the scheduler with the reason in it; after any other end the job
\* is enabled and unlocked for the next tick.
C4_DisableIffFatal ==
    CycleEnded =>
        /\ jobs[1].disabled <=> (cycle.outcome = "failed" /\ RaisedFatal)
        /\ cycle.outcome = "failed" =>
              /\ jobs[1].failReason = cycle.error
              /\ \A k \in 1..Len(cycle.cause) : Includes(cycle.error, cycle.cause[k])
        /\ jobs[1].disabled =>
              Head(cycle.error) = "Portfolio monitoring disabled due to fatal error"
        /\ ~jobs[1].locked

\* A fatal reason raised inside a swap, wrapped twice, disabled the job
C4_WrappedFatalDisables ==
    /\ CycleEnded /\ jobs[1].disabled
    /\ Includes(cycle.error, "Rebalancing stopped at swap")
    /\ Includes(cycle.error, "Failed to execute swap")
    /\ cycle.cause = <<"insufficient funds">>

\* C5: a cycle started for a missing or inactive portfolio ends at once as a
\* no-op: nothing refreshed, planned or submitted, no record written, the
\* job left as it was, no error.
C5_InactiveIsNoop ==
    [][(now' # now /\ ~(portfolio.exists /\ portfolio.isActive))
          => /\ pc' = "idle"
             /\ cycle'.outcome = "noop"
             /\ cycle'.error = <<>>
             /\ log' = <<>>
             /\ jobs' = jobs
             /\ UNCHANGED <<holdings, portfolio, allocations, rebalanceJobs, planOut>>]_vars

\* A cycle ended as a no-op for an existing but inactive portfolio
C5_InactiveSkipped ==
    CycleEnded /\ cycle.outcome = "noop" /\ portfolio.exists /\ ~portfolio.isActive

Waiting == pc \in {"waitApproval", "waitSwap"}

\* C7: a confirmation wait never runs past maxWaitTime and always ends, by a
\* successful receipt or by the failure raised at the timeout.
C7_WaitTerminates ==
    /\ [](cycle.elapsed <= MaxWaitTime)
    /\ Waiting ~> ~Waiting

\* A wait ran to its timeout and failed the cycle
C7_TimedOut ==
    CycleEnded /\ cycle.outcome = "failed" /\ Includes(cycle.cause, "not confirmed within")

---------------------------------------------------------------------------
(* The scheduler: createPortfolioJob calls and ticks for several portfolios.*)
(* Here cycle[p] counts the cycles in flight for portfolio p.               *)

MaxPortfolios == 3
Portfolios == 1..MaxPortfolios

\* Scheduler ticks explored
MaxSchedTicks == 3

JobsOf(js, p) == {k \in 1..Len(js) : js[k].portfolioId = p}

\* job.save() of a job that is not unique: always a new document
SaveAlways(js, job) == Append(js, job)

\* job.unique({ 'data.portfolioId': portfolioId }) then job.save(): an
\* upsert keyed by the portfolio, which leaves the lock and the disabled flag
\* of an existing document as they are
SaveUnique(js, job) ==
    IF JobsOf(js, job.portfolioId) = {} THEN Append(js, job) ELSE js

InitSched ==
    /\ holdings = [a \in Assets |-> 0]
    /\ priceData = [a \in Assets |-> TRUE]
    /\ portfolio = NewPortfolio(DefaultThreshold)
    /\ allocations = NewAllocations(CHOOSE t \in TargetChoices : TRUE)
    /\ rebalanceJobs = <<>>
    /\ jobs = <<>>
    /\ now = 0
    /\ pc = "scheduler"
    /\ cycle = [p \in Portfolios |-> 0]
    /\ log = <<>>
    /\ planOut = NoPlan

\* portfolioJobManager.createPortfolioJob
CreatePortfolioJob ==
    /\ pc = "scheduler"
    /\ \E p \in Portfolios : jobs' = SaveUnique(jobs, NewJob(p, "portfolioMonitoring"))
    /\ UNCHANGED <<holdings, priceData, portfolio, allocations, rebalanceJobs, now,
                   pc, cycle, log, planOut>>

\* The scheduler locks a due job that is neither disabled nor locked and
\* calls the handler registered in startWorker
RunJob ==
    /\ pc = "scheduler"
    /\ now < MaxSchedTicks
    /\ \E k \in 1..Len(jobs) :
          /\ ~jobs[k].disabled /\ ~jobs[k].locked
          /\ jobs' = [jobs EXCEPT ![k].locked = TRUE]
          /\ cycle' = [cycle EXCEPT ![jobs[k].portfolioId] = @ + 1]
    /\ now' = now + 1
    /\ UNCHANGED <<holdings, priceData, portfolio, allocations, rebalanceJobs,
                   pc, log, planOut>>

\* The handler of a running job returns or throws: the scheduler unlocks the
\* job
FinishJob ==
    /\ pc = "scheduler"
    /\ \E k \in 1..Len(jobs) :
          /\ jobs[k].locked
          /\ jobs' = [jobs EXCEPT ![k].locked = FALSE]
          /\ cycle' = [cycle EXCEPT ![jobs[k].portfolioId] = @ - 1]
    /\ UNCHANGED <<holdings, priceData, portfolio, allocations, rebalanceJobs, now,
                   pc, log, planOut>>

NextSched == CreatePortfolioJob \/ RunJob \/ FinishJob

SpecSched == InitSched /\ [][NextSched]_vars

---------------------------------------------------------------------------
(* PortfolioService: createPortfolio and updatePortfolioAllocations.  Here  *)
(* portfolio is the Portfolio collection, allocations the Allocation        *)
(* collection, both in insertion order, and cycle is the record of the last *)
(* call.  Percentages are in thousandths.                                    *)

\* Calls explored
MaxCalls == 2

\* 100% in thousandths
WholeSum == 10 * 100

\* The tolerance of the sum test, 0.001, in thousandths
SumTolerance == 1

\* String.prototype.toUpperCase on the symbols of the requests
toUpperCase(symbol) ==
    CASE symbol = "weth" -> "WETH"
      [] symbol = "doge" -> "DOGE"
      [] OTHER -> symbol

\* Asset.findOne({ symbol, isActive: true }) finds the assets of the registry
ActiveAssets == Assets

\* targetPercentage of the three allocations of a request
PercentageChoices ==
    { <<500, 250, 250>>, <<197, 687, 116>>, <<62, 250, 687>>, <<499, 250, 250>>,
      <<501, 250, 250>>, <<64, 250, 687>>, <<498, 250, 250>>, <<502, 250, 250>> }

\* assetSymbol of the three allocations of a request: three assets of the
\* registry, an unknown asset, the same asset twice
SymbolChoices ==
    { <<"WBTC", "weth", "USDC">>, <<"WBTC", "doge", "USDC">>, <<"WBTC", "WBTC", "USDC">> }

\* data.allocations of a request
Requests ==
    { [k \in 1..3 |-> [assetSymbol |-> sym[k], targetPercentage |-> pct[k]]] :
        sym \in SymbolChoices, pct \in PercentageChoices }

Percentages(request) == [k \in 1..Len(request) |-> request[k].targetPercentage]

\* reduce((sum, alloc) => sum + alloc.targetPercentage, 0) in IEEE-754
\* doubles: the sign of the computed sum minus the decimal sum of the
\* operands.  0.197 + 0.687 + 0.116 gives 1.0000000000000002,
\* 0.062 + 0.25 + 0.687 gives 0.9990000000000001, 0.064 + 0.25 + 0.687 gives
\* 1.0010000000000001 and 0.502 + 0.25 + 0.25 the double above 1.002;
\* 0.5 + 0.25 + 0.25 is exactly 1; the other sums are 0.999, 1.001 and 0.998,
\* doubles that lie below the decimals they print as.
FloatExcess(percentages) ==
    CASE percentages = <<500, 250, 250>> -> 0
      [] percentages = <<197, 687, 116>> -> 1
      [] percentages = <<62, 250, 687>> -> 1
      [] percentages = <<64, 250, 687>> -> 1
      [] percentages = <<502, 250, 250>> -> 1
      [] percentages = <<499, 250, 250>> -> -1
      [] percentages = <<501, 250, 250>> -> -1
      [] percentages = <<498, 250, 250>> -> -1
      [] OTHER -> 0

\* A computed sum: its thousandths and the sign of what the double adds
FloatSum(percentages) == <<SeqSum(percentages), FloatExcess(percentages)>>

\* a > bound for a computed sum a and a bound in thousandths
FloatGreater(a, bound) == a[1] > bound \/ (a[1] = bound /\ a[2] > 0)

\* Math.abs(a - 1) of a computed sum
AbsFromWhole(a) ==
    IF a[1] >= WholeSum THEN <<a[1] - WholeSum, a[2]>> ELSE <<WholeSum - a[1], -a[2]>>

\* A sum test that lets every set pass
SumNeverRejected(request) == FALSE

\* The sum test of createPortfolio and updatePortfolioAllocations:
\* Math.abs(totalPercentage - 1) > 0.001
SumRejected(request) ==
    FloatGreater(AbsFromWhole(FloatSum(Percentages(request))), SumTolerance)

SumError == <<"Total allocation percentage must equal 100%">>
ExceedError == <<"Total allocation percentage cannot exceed 100%">>
AssetError(symbol) == <<"Asset ", symbol, " not found or inactive">>
DuplicateKeyError == <<"E11000 duplicate key error">>

\* new Allocation({ portfolioId, assetId, targetPercentage, ... })
NewAllocation(portfolioId, assetId, targetPercentage) ==
    [portfolioId |-> portfolioId, assetId |-> assetId,
     targetPercentage |-> targetPercentage, currentValueUSD |-> 0]

\* AllocationSchema.pre('save'): the sum of the other allocations of the
\* portfolio plus this one exceeds 1.  The stored allocations come back in
\* insertion order, so the sum at the last save of a request is the sum the
\* service computed; the shorter sums stay in thousandths.
PreSaveRejects(docs, request, k, portfolioId) ==
    LET others == SelectSeq(docs, LAMBDA d : d.portfolioId = portfolioId)
        stored == [i \in 1..Len(others) |-> others[i].targetPercentage]
        summed == Append(stored, request[k].targetPercentage)
        total == IF summed = Percentages(request)
                 THEN FloatSum(summed) ELSE <<SeqSum(summed), 0>>
    IN  FloatGreater(total, WholeSum)

\* The unique index on (portfolioId, assetId)
DuplicateKey(docs, portfolioId, assetId) ==
    \E i \in 1..Len(docs) : docs[i].portfolioId = portfolioId /\ docs[i].assetId = assetId

\* The loop over data.allocations from the k-th on: Asset.findOne, new
\* Allocation, allocation.save().  The first error ends the loop and leaves
\* the documents saved before it.
RECURSIVE SaveAllocations(_, _, _, _)
SaveAllocations(docs, request, k, portfolioId) ==
    IF k > Len(request) THEN [docs |-> docs, error |-> <<>>]
    ELSE LET symbol == toUpperCase(request[k].assetSymbol)
         IN  IF symbol \notin ActiveAssets
             THEN [docs |-> docs, error |-> AssetError(request[k].assetSymbol)]
             ELSE IF PreSaveRejects(docs, request, k, portfolioId)
             THEN [docs |-> docs, error |-> ExceedError]
             ELSE IF DuplicateKey(docs, portfolioId, symbol)
             THEN [docs |-> docs, error |-> DuplicateKeyError]
             ELSE SaveAllocations(
                      Append(docs, NewAllocation(portfolioId, symbol,
                                                 request[k].targetPercentage)),
                      request, k + 1, portfolioId)

\* Allocation.deleteMany({ portfolioId })
DeleteMany(docs, portfolioId) == SelectSeq(docs, LAMBDA d : d.portfolioId # portfolioId)

\* The record of a call: what it was, how it ended, and the collections
\* before it
Call(op, request, error) ==
    [op |-> op, request |-> request,
     outcome |-> IF error = <<>> THEN "ok" ELSE "error", error |-> error,
     before |-> [portfolio |-> portfolio, allocations |-> allocations]]

InitService ==
    /\ holdings = [a \in Assets |-> 0]
    /\ priceData = [a \in Assets |-> TRUE]
    /\ portfolio = <<>>
    /\ allocations = <<>>
    /\ rebalanceJobs = <<>>
    /\ jobs = <<>>
    /\ now = 0
    /\ pc = "service"
    /\ cycle = Call("none", <<>>, <<>>)
    /\ log = <<>>
    /\ planOut = NoPlan

\* PortfolioService.createPortfolio: the sum test, portfolio.save(), the
\* allocations one by one, then createPortfolioJob, whose failure is logged
\* and does not fail the call
CreatePortfolio ==
    /\ pc = "service"
    /\ now < MaxCalls
    /\ now' = now + 1
    /\ \E request \in Requests :
          IF SumRejected(request)
          THEN /\ cycle' = Call("createPortfolio", request, SumError)
               /\ UNCHANGED <<portfolio, allocations, jobs>>
          ELSE LET portfolioId == Len(portfolio) + 1
                   saved == SaveAllocations(allocations, request, 1, portfolioId)
               IN  /\ portfolio' = Append(portfolio, NewPortfolio(DefaultThreshold))
                   /\ allocations' = saved.docs
                   /\ cycle' = Call("createPortfolio", request, saved.error)
                   /\ IF saved.error = <<>>
                      THEN \/ jobs' = SaveUnique(jobs, NewJob(portfolioId,
                                                             "portfolioMonitoring"))
                           \/ jobs' = jobs
                      ELSE jobs' = jobs
    /\ UNCHANGED <<holdings, priceData, rebalanceJobs, pc, log, planOut>>

\* PortfolioService.updatePortfolioAllocations: the sum test, deleteMany,
\* then the allocations one by one
UpdatePortfolioAllocations ==
    /\ pc = "service"
    /\ now < MaxCalls
    /\ now' = now + 1
    /\ \E portfolioId \in 1..Len(portfolio), request \in Requests :
          IF SumRejected(request)
          THEN /\ cycle' = Call("updatePortfolioAllocations", request, SumError)
               /\ UNCHANGED allocations
          ELSE LET saved == SaveAllocations(DeleteMany(allocations, portfolioId),
                                            request, 1, portfolioId)
               IN  /\ allocations' = saved.docs
                   /\ cycle' = Call("updatePortfolioAllocations", request, saved.error)
    /\ UNCHANGED <<holdings, priceData, portfolio, rebalanceJobs, jobs, pc, log, planOut>>

NextService == CreatePortfolio \/ UpdatePortfolioAllocations

SpecService == InitService /\ [][NextService]_vars

\* Math.abs(sum - 1) of the request of the last call, as computed
LastSumGap == AbsFromWhole(FloatSum(Percentages(cycle.request)))

\* C18: a call is accepted only if the sum of its targetPercentage is less
\* than 0.001 away from 1, and every call whose sum is 0.001 or more away
\* from 1 is rejected.
C18_AcceptedSumsToOne ==
    cycle.op # "none" =>
        /\ cycle.outcome = "ok" =>
              /\ ~FloatGreater(LastSumGap, SumTolerance)
              /\ LastSumGap # <<SumTolerance, 0>>
        /\ (FloatGreater(LastSumGap, SumTolerance) \/ LastSumGap = <<SumTolerance, 0>>) =>
              cycle.outcome = "error"

\* An update with a computed sum just above 0.999 was accepted and replaced
\* the allocations of the portfolio
C18_AcceptedNearOne ==
    /\ cycle.op = "updatePortfolioAllocations"
    /\ cycle.outcome = "ok"
    /\ SeqSum(Percentages(cycle.request)) < WholeSum
    /\ Len(allocations) = 3

\* C19: a call that ends in an error of the sum test, of the pre-save check
\* or of an unknown or inactive asset leaves the stored portfolios and
\* allocations exactly as they were before the call.
C19_FailedCallChangesNothing ==
    (/\ cycle.op # "none"
     /\ cycle.outcome = "error"
     /\ cycle.error # DuplicateKeyError) =>
        /\ portfolio = cycle.before.portfolio
        /\ allocations = cycle.before.allocations

---------------------------------------------------------------------------
(* The monitoring cycle on a wallet that also receives transfers *)

\* An ERC-20 transfer to the portfolio's address by its owner or anyone else:
\* balanceOf returns the new balance from then on.  The transfers explored
\* are those that land between the refresh of a cycle and its step 3.
ExternalTransfer ==
    /\ pc = "observe"
    /\ \E a \in Assets :
          /\ holdings[a] + HoldingUnit <= MaxUnits * HoldingUnit
          /\ holdings' = [holdings EXCEPT ![a] = @ + HoldingUnit]
    /\ UNCHANGED <<priceData, portfolio, allocations, rebalanceJobs, jobs, now, pc,
                   cycle, log, planOut>>

NextChain == Next \/ ExternalTransfer

SpecChain == InitCycle /\ [][NextChain]_vars

\* The balances the last refresh persisted, per asset
PersistedValues == [a \in Assets |-> allocations[a].currentValueUSD]

\* The plan that follows from the persisted balances
PersistedPlan ==
    LET plan == calculateRebalanceSwaps(
                    calculateCurrentAllocations(allocations, PersistedValues, priceData))
    IN  [i \in 1..Len(plan.swaps) |-> GreedyView(plan.swaps[i])]

\* C28: the deviations of a cycle are those of the balances its refresh
\* persisted: the plan the executor receives is the plan that follows from
\* the Allocation documents, whatever the chain holds by then.
C28_DeviationsFromPersisted ==
    (jobs[1].handler = "portfolioMonitoring" /\ pc = "executor") =>
        planOut.swaps = PersistedPlan

---------------------------------------------------------------------------
(* The monitoring cycle next to the requests of the API *)

\* data.allocations of the PUT /portfolios/:portfolioId/allocations request
\* explored, in permille
RequestedTargets == [WBTC |-> 400, WETH |-> 300, USDC |-> 300]

\* The targetPercentage of the stored allocations
StoredTargets == [a \in DOMAIN allocations |-> allocations[a].targetPercentage]

\* PortfolioService.updatePortfolioAllocations up to its loop: the sum test
\* passes for the request and deleteMany removes the portfolio's allocations.
\* The requests explored are those that arrive while a cycle is in flight.
DeleteAllocations ==
    /\ pc # "idle"
    /\ portfolio.exists
    /\ DOMAIN allocations = Assets
    /\ StoredTargets # RequestedTargets
    /\ allocations' = [a \in {} |-> NewAllocations(RequestedTargets)[a]]
    /\ UNCHANGED <<holdings, priceData, portfolio, rebalanceJobs, jobs, now, pc, cycle,
                   log, planOut>>

\* One turn of the loop of updatePortfolioAllocations: new Allocation(...)
\* and allocation.save() for the next allocation of the request
SaveAllocation ==
    /\ DOMAIN allocations # Assets
    /\ LET missing == SelectSeq(AllocOrder, LAMBDA a : a \notin DOMAIN allocations)
           saved == DOMAIN allocations \cup {missing[1]}
       IN  allocations' = [a \in saved |->
                              IF a = missing[1] THEN NewAllocations(RequestedTargets)[a]
                              ELSE allocations[a]]
    /\ UNCHANGED <<holdings, priceData, portfolio, rebalanceJobs, jobs, now, pc, cycle,
                   log, planOut>>

\* PortfolioService.deactivatePortfolio
DeactivatePortfolio ==
    /\ pc # "idle"
    /\ portfolio.exists
    /\ portfolio.isActive
    /\ portfolio' = [portfolio EXCEPT !.isActive = FALSE]
    /\ UNCHANGED <<holdings, priceData, allocations, rebalanceJobs, jobs, now, pc, cycle,
                   log, planOut>>

\* An active portfolio on the 50/25/25 targets, with its job and a wallet
\* that holds no WETH
InitShared ==
    /\ holdings \in {h \in HoldingChoices : h["WETH"] = 0}
    /\ priceData = [a \in Assets |-> TRUE]
    /\ allocations = NewAllocations([WBTC |-> 500, WETH |-> 250, USDC |-> 250])
    /\ portfolio = NewPortfolio(DefaultThreshold)
    /\ rebalanceJobs = <<>>
    /\ jobs = <<NewJob(1, "portfolioMonitoring")>>
    /\ now = 0
    /\ pc = "idle"
    /\ cycle = NoCycle
    /\ log = <<>>
    /\ planOut = NoPlan

NextShared == Next \/ DeleteAllocations \/ SaveAllocation \/ DeactivatePortfolio

SpecShared == InitShared /\ [][NextShared]_vars

\* C21: while a cycle is in flight, a step that changes the Portfolio or the
\* Allocation documents is a step of that cycle.
C21_OnlyTheCycleWrites ==
    [][(pc # "idle" /\ (allocations' # allocations \/ portfolio' # portfolio)) => Next]_vars

\* The allocation set a cycle in flight reads is whole
CycleReadsWholeSet == pc # "idle" => DOMAIN allocations = Assets

---------------------------------------------------------------------------
(* Cycle after cycle, with constant prices and every transaction confirmed *)

\* A wallet worth $5 on the 50/25/25 target, then moved off it by less than a
\* cent per asset (mills)
SmallHoldings == [WBTC |-> 2500, WETH |-> 1250, USDC |-> 1250]

SmallDriftChoices == {-4, 0, 4, 8}

SmallDriftHoldings ==
    { [a \in Assets |-> SmallHoldings[a] + d[a]] : d \in [Assets -> SmallDriftChoices] }

\* Wallets that hold something
FundedHoldings ==
    {h \in HoldingChoices \cup DriftHoldings \cup SmallDriftHoldings :
        \E a \in Assets : h[a] > 0}

InitConverge ==
    /\ holdings \in FundedHoldings
    /\ priceData = [a \in Assets |-> TRUE]
    /\ \E t \in TargetChoices : allocations = NewAllocations(t)
    /\ portfolio = NewPortfolio(DefaultThreshold)
    /\ rebalanceJobs = <<>>
    /\ jobs = <<NewJob(1, "portfolioMonitoring")>>
    /\ now = 0
    /\ pc = "idle"
    /\ cycle = NoCycle
    /\ log = <<>>
    /\ planOut = NoPlan

\* The wallet after the executor's loop confirmed swaps k.. one after the
\* other
RECURSIVE SwappedAll(_, _, _)
SwappedAll(chain, swaps, k) ==
    IF k > Len(swaps) THEN chain
    ELSE SwappedAll(Swapped(chain, swaps[k]), swaps, k + 1)

\* The scheduler starts the job of the portfolio: the handler finds the
\* portfolio active
ScheduleMonitoring ==
    /\ pc = "idle"
    /\ ~jobs[1].disabled
    /\ CanMonitor(portfolio)
    /\ pc' = "monitoring"
    /\ UNCHANGED <<holdings, priceData, portfolio, allocations, rebalanceJobs, jobs,
                   now, cycle, log, planOut>>

\* The rest of a run of portfolioMonitoring in which no call fails: the
\* refresh, steps 3 to 5, every swap of the plan submitted, confirmed and
\* filled at its amountInUSD, the second refresh and the lastRebalanceAt
\* update.
MonitoringCycle ==
    /\ pc = "monitoring"
    /\ pc' = "idle"
    /\ LET refreshed == UpdatedAllocations(allocations, holdings, priceData)
           current == calculateCurrentAllocations(refreshed, holdings, priceData)
           plan == calculateRebalanceSwaps(current)
           validSwaps == SelectSeq(plan.swaps, validateSwapOperation)
           outcome ==
               IF Len(current) = 0 THEN "noAllocations"
               ELSE IF ~(\E i \in 1..Len(current) : current[i].needsRebalance)
               THEN "balanced"
               ELSE IF ~(plan.isRebalanceNeeded /\ Len(plan.swaps) > 0)
               THEN "noSwapsNeeded"
               ELSE IF Len(validSwaps) = 0 THEN "noValidSwaps"
               ELSE "completed"
           after == IF outcome = "completed" THEN SwappedAll(holdings, validSwaps, 1)
                    ELSE holdings
       IN  /\ ~plan.threw
           /\ holdings' = after
           /\ allocations' = UpdatedAllocations(refreshed, after, priceData)
           /\ portfolio' =
                 [portfolio EXCEPT
                     !.totalValueUSD = SeqSum([i \in 1..Len(current) |->
                                                  AllocValue(current[i])]),
                     !.lastRebalanceAt = now]
           /\ cycle' = [NoCycle EXCEPT
                           !.outcome = outcome,
                           !.swaps = IF outcome = "completed" THEN validSwaps ELSE <<>>]
           /\ planOut' =
                 IF outcome \in {"noAllocations", "balanced"} THEN planOut
                 ELSE [planner |-> "calculateRebalanceSwaps", threw |-> FALSE,
                       swaps |-> [i \in 1..Len(plan.swaps) |-> GreedyView(plan.swaps[i])]]
    /\ UNCHANGED <<priceData, rebalanceJobs, jobs, now, log>>

NextConverge == ScheduleMonitoring \/ MonitoringCycle

\* The scheduler runs the job of an active portfolio again and again
SpecConverge == InitConverge /\ [][NextConverge]_vars /\ WF_vars(ScheduleMonitoring)

\* Every run that starts also ends
RunsEnd == []<>(pc = "idle")

\* No asset's distance to its target grows in a step
GapsNeverGrow == [][\A x \in Assets : WalletGap(x)' <= WalletGap(x)]_vars

\* C30: when every run ends, the cycles reach one that finds every asset
\* within tolerance, and no cycle on the way moves an asset further from its
\* target.
C30_ReachesTolerance ==
    (RunsEnd => <>(cycle.outcome = "balanced")) /\ GapsNeverGrow

---------------------------------------------------------------------------
(* rebalanceUtils: token amounts from USD amounts *)

RECURSIVE Pow10(_)
Pow10(n) == IF n = 0 THEN 1 ELSE 10 * Pow10(n - 1)

\* The decimal expansion of r / den for r < den, digit by digit: the integer
\* made of q followed by the next `digits` digits, and the remainder left
RECURSIVE LongDivision(_, _, _, _)
LongDivision(q, r, den, digits) ==
    IF digits = 0 THEN <<q, r>>
    ELSE LongDivision(q * 10 + (r * 10) \div den, (r * 10) % den, den, digits - 1)

\* Number.prototype.toFixed(digits) of the quotient num / den: the decimal
\* string with `digits` fraction digits nearest to the number, the larger one
\* when two are equally near.  The string is kept as <<n, digits>>, standing
\* for n / 10^digits.
toFixed(num, den, digits) ==
    LET expansion == LongDivision(num \div den, num % den, den, digits)
    IN  <<expansion[1] + (IF 2 * expansion[2] >= den THEN 1 ELSE 0), digits>>

\* ethers.utils.parseUnits(string, decimals): the amount in smallest units
parseUnits(str, decimals) == str[1] * Pow10(decimals - str[2])

\* calculateTokenAmounts(usdAmount, tokenPrice, decimals), usdAmount in mills
\* and tokenPrice in whole USD; amountFormatted is the quotient
\* usdAmount / tokenPrice, kept as numerator and denominator.  The planner
\* converts amountInUSD with the same expression.
calculateTokenAmounts(usdAmount, tokenPrice, decimals) ==
    [amountTokens |-> parseUnits(toFixed(usdAmount, tokenPrice * MillsPerUSD, decimals),
                                 decimals),
     amountFormatted |-> <<usdAmount, tokenPrice * MillsPerUSD>>]

\* USD amounts from one cent to MaxCents cents, in mills
MaxCents == 20

UsdAmountChoices == {k * (DustUSD \div MicroPerMill) : k \in 1..MaxCents}

\* priceUSD of USDC, WETH and WBTC, in whole USD
TokenPriceChoices == {1, 3000, 70000}

\* asset.decimals of USDC and WBTC
DecimalsChoices == {6, 8}

InitTokens ==
    /\ holdings = [a \in Assets |-> 0]
    /\ priceData = [a \in Assets |-> TRUE]
    /\ portfolio = NoPortfolio
    /\ allocations = <<>>
    /\ rebalanceJobs = <<>>
    /\ jobs = <<>>
    /\ now = 0
    /\ pc = "amount"
    /\ \E usdAmount \in UsdAmountChoices, tokenPrice \in TokenPriceChoices,
          decimals \in DecimalsChoices :
          cycle = [usdAmount |-> usdAmount, tokenPrice |-> tokenPrice,
                   decimals |-> decimals]
    /\ log = <<>>
    /\ planOut = NoPlan

\* One call of calculateTokenAmounts
ConvertAmount ==
    /\ pc = "amount"
    /\ pc' = "converted"
    /\ planOut' = calculateTokenAmounts(cycle.usdAmount, cycle.tokenPrice, cycle.decimals)
    /\ UNCHANGED <<holdings, priceData, portfolio, allocations, rebalanceJobs, jobs,
                   now, cycle, log>>

NextTokens == ConvertAmount

SpecTokens == InitTokens /\ [][NextTokens]_vars

\* floor(usdAmount / tokenPrice * 10^decimals) for the inputs of the call
FlooredUnits ==
    LongDivision(cycle.usdAmount \div (cycle.tokenPrice * MillsPerUSD),
                 cycle.usdAmount % (cycle.tokenPrice * MillsPerUSD),
                 cycle.tokenPrice * MillsPerUSD, cycle.decimals)[1]

\* C27: the token amount, in smallest units, never exceeds the USD amount
\* divided by the price and rounded down to the asset's decimals.
C27_TokensRoundedDown ==
    pc = "converted" => planOut.amountTokens <= FlooredUnits

=============================================================================
